---- MODULE Spec2Model ----
\* A model of pyFreeFem/FreeFemIO.py: the solver-output framer, the text-table
\* decoder, the matrix decoder, the boundary-edge resolver, the mesh
\* reconstruction loop and the mesh serializer.
\*
\* Python values are modelled as follows.
\*   str            a sequence of one-character strings ("\n" is the newline)
\*   list / array   a sequence; Python position p is element p + 1
\*   dict           a function whose domain is the set of keys
\*   None           the empty tuple; a value that may be None is a 1-tuple
\*   exception      a record [raises |-> the exception's name]
\*   int            an integer; float: a record [m, d] standing for m / 10^d
\*
\* numpy is taken as it was when the code was written (before 1.24): a list of
\* lists of different lengths becomes a one-dimensional array of objects, and
\* str() of a list of numpy integers shows plain numerals.
EXTENDS Integers, Sequences, FiniteSets, TLC

VARIABLES
    pc,              \* where the call at hand stands
    triangles,       \* FreeFem_str_to_mesh: the triangle connectivity array
    boundaries,      \* FreeFem_str_to_mesh: FreeFem_mesh['boundaries']
    boundary_edges,  \* FreeFem_str_to_mesh: the dict being filled
    edge_no,         \* FreeFem_str_to_mesh: number of edges processed
    last,            \* the latest resolver call: its argument and outcome;
                     \* for a decoder, what the solver's output was made of
    FreeFem_str,     \* the text argument of the call at hand
    args,            \* the other arguments of the call at hand
    result           \* what the call returned or raised; for savemesh,
                     \* the text written to the file

vars == <<pc, triangles, boundaries, boundary_edges, edge_no, last,
          FreeFem_str, args, result>>

\* Value of a variable that the specification at hand does not use.
Idle == "idle"

None == <<>>
Some(v) == <<v>>
ValueOf(opt) == opt[1]

-----------------------------------------------------------------------------
\* Python strings.

NL == "\n"

Returned(v) == [ raises |-> "", value |-> v ]
Raised(exception) == [ raises |-> exception, value |-> <<>> ]

\* sep occurs in s at position i (from 1).
OccursAt(s, sep, i) ==
    /\ i >= 1
    /\ i + Len(sep) - 1 <= Len(s)
    /\ SubSeq(s, i, i + Len(sep) - 1) = sep

\* The positions at or after `from` where sep occurs in s.
Occurrences(s, sep, from) ==
    { i \in from .. Len(s) - Len(sep) + 1 : OccursAt(s, sep, i) }

\* str.split( sep ) for a non-empty sep: the pieces between the occurrences
\* of sep, found from left to right without overlap.
RECURSIVE StrSplit(_, _)
StrSplit(s, sep) ==
    LET hits == Occurrences(s, sep, 1)
    IN  IF hits = {} THEN << s >>
        ELSE LET i == CHOOSE h \in hits : \A g \in hits : h <= g
             IN  << SubSeq(s, 1, i - 1) >>
                     \o StrSplit(SubSeq(s, i + Len(sep), Len(s)), sep)

\* sep.join( list )
RECURSIVE StrJoin(_, _)
StrJoin(sep, list) ==
    IF Len(list) = 0 THEN <<>>
    ELSE IF Len(list) = 1 THEN list[1]
    ELSE list[1] \o sep \o StrJoin(sep, Tail(list))

\* The concatenation of a list of strings.
Concat(list) == StrJoin(<<>>, list)

-----------------------------------------------------------------------------
\* Python numbers and their text.

DigitValue ==
    "0" :> 0 @@ "1" :> 1 @@ "2" :> 2 @@ "3" :> 3 @@ "4" :> 4 @@
    "5" :> 5 @@ "6" :> 6 @@ "7" :> 7 @@ "8" :> 8 @@ "9" :> 9

DigitChar == << "0", "1", "2", "3", "4", "5", "6", "7", "8", "9" >>

IsDigits(cs) == cs # <<>> /\ \A i \in 1 .. Len(cs) : cs[i] \in DOMAIN DigitValue

RECURSIVE DigitsValue(_)
DigitsValue(cs) ==
    IF cs = <<>> THEN 0
    ELSE 10 * DigitsValue(SubSeq(cs, 1, Len(cs) - 1)) + DigitValue[cs[Len(cs)]]

RECURSIVE Pow10(_)
Pow10(d) == IF d = 0 THEN 1 ELSE 10 * Pow10(d - 1)

Signed(cs) == cs # <<>> /\ cs[1] \in { "-", "+" }
Unsigned(cs) == IF Signed(cs) THEN Tail(cs) ELSE cs
SignOf(cs) == IF cs # <<>> /\ cs[1] = "-" THEN -1 ELSE 1

\* A float m / 10^d, without trailing zero decimals.
RECURSIVE Float(_, _)
Float(m, d) ==
    IF d > 0 /\ m % 10 = 0 THEN Float(m \div 10, d - 1) ELSE [ m |-> m, d |-> d ]

\* int( text ): Some(the integer) for an optional sign and decimal digits,
\* None when it raises ValueError.
IntOfStr(cs) ==
    IF IsDigits(Unsigned(cs)) THEN Some(SignOf(cs) * DigitsValue(Unsigned(cs))) ELSE None

\* float( text ): Some(the float) for an optional sign and digits with at most
\* one point and at least one digit, None when it raises ValueError.
FloatOfStr(cs) ==
    LET body == Unsigned(cs)
        points == { i \in 1 .. Len(body) : body[i] = "." }
    IN  IF points = {}
        THEN IF IsDigits(body) THEN Some(Float(SignOf(cs) * DigitsValue(body), 0)) ELSE None
        ELSE IF Cardinality(points) > 1 THEN None
        ELSE LET at == CHOOSE i \in points : TRUE
                 whole == SubSeq(body, 1, at - 1)
                 decimals == SubSeq(body, at + 1, Len(body))
             IN  IF /\ whole \o decimals # <<>>
                    /\ \A i \in 1 .. Len(whole \o decimals) :
                          (whole \o decimals)[i] \in DOMAIN DigitValue
                 THEN Some(Float(SignOf(cs) * DigitsValue(whole \o decimals), Len(decimals)))
                 ELSE None

\* int( x ) of a float: truncation towards zero.
IntOfFloat(f) ==
    IF f.m >= 0 THEN f.m \div Pow10(f.d) ELSE - ((- f.m) \div Pow10(f.d))

\* float( n ) of an int.
FloatOfInt(n) == Float(n, 0)

\* The decimal digits of a natural number, at least `width` of them.
RECURSIVE NatStr(_, _)
NatStr(n, width) ==
    IF n < 10 /\ width <= 1 THEN << DigitChar[n + 1] >>
    ELSE Append(NatStr(n \div 10, width - 1), DigitChar[(n % 10) + 1])

\* str( n ) of an int.
StrOfInt(n) == IF n < 0 THEN <<"-">> \o NatStr(- n, 1) ELSE NatStr(n, 1)

\* str( x ) of a float: the integer part, a point, the decimals ("0" if none).
StrOfFloat(f) ==
    LET abs == IF f.m < 0 THEN - f.m ELSE f.m
    IN  (IF f.m < 0 THEN <<"-">> ELSE <<>>)
            \o NatStr(abs \div Pow10(f.d), 1)
            \o <<".">>
            \o (IF f.d = 0 THEN <<"0">> ELSE NatStr(abs % Pow10(f.d), f.d))

-----------------------------------------------------------------------------
\* loadstr

\* An element of a list or array: an int, a float or a str.
IntCell(n) == [ t |-> "int", m |-> n, d |-> 0, s |-> <<>> ]
FloatCell(f) == [ t |-> "float", m |-> f.m, d |-> f.d, s |-> <<>> ]
StrCell(cs) == [ t |-> "str", m |-> 0, d |-> 0, s |-> cs ]

FloatOf(cell) == [ m |-> cell.m, d |-> cell.d ]

\* str( element ), as numpy takes it when it builds an array of strings.
StrOfCell(cell) ==
    IF cell.t = "int" THEN StrOfInt(cell.m)
    ELSE IF cell.t = "float" THEN StrOfFloat(FloatOf(cell))
    ELSE cell.s

Whitespace == { " ", NL }

\* str.split() without a separator: the runs of characters other than whitespace.
RECURSIVE SplitWhitespace(_)
SplitWhitespace(s) ==
    IF s = <<>> THEN <<>>
    ELSE IF s[1] \in Whitespace THEN SplitWhitespace(Tail(s))
    ELSE LET stops == { i \in 1 .. Len(s) : s[i] \in Whitespace } \cup { Len(s) + 1 }
             stop == CHOOSE i \in stops : \A j \in stops : i <= j
         IN  << SubSeq(s, 1, stop - 1) >> \o SplitWhitespace(SubSeq(s, stop, Len(s)))

\* data_line.split( delimiter )
SplitLine(data_line, delimiter) ==
    IF delimiter = None THEN SplitWhitespace(data_line)
    ELSE StrSplit(data_line, ValueOf(delimiter))

\* conversion_try: float( x ) or int( x ) by dtype, x itself for another dtype;
\* None when it raises.
conversion_try(x, dtype) ==
    IF dtype = "float"
    THEN (IF FloatOfStr(x) = None THEN None ELSE Some(FloatCell(ValueOf(FloatOfStr(x)))))
    ELSE IF dtype = "int"
    THEN (IF IntOfStr(x) = None THEN None ELSE Some(IntCell(ValueOf(IntOfStr(x)))))
    ELSE Some(StrCell(x))

\* conversion: the converted value, or x when conversion_try raises.
conversion(x, dtype) ==
    IF conversion_try(x, dtype) = None THEN StrCell(x)
    ELSE ValueOf(conversion_try(x, dtype))

\* np.array( data ) that keeps every element as it is.
NpArray_asis(data) ==
    IF Cardinality({ Len(data[r]) : r \in 1 .. Len(data) }) > 1
    THEN [ dtype |-> "object", rows |-> data ]
    ELSE [ dtype |-> "asis", rows |-> data ]

\* np.array( data ) of a list of lists (numpy before 1.24).
\*   rows of different lengths: a one-dimensional array of the list objects;
\*   else, some element a str: an array of strings, every element as str();
\*   else the two-dimensional numeric array.
NpArray(data) ==
    IF Cardinality({ Len(data[r]) : r \in 1 .. Len(data) }) > 1
    THEN [ dtype |-> "object", rows |-> data ]
    ELSE IF \E r \in 1 .. Len(data) : \E c \in 1 .. Len(data[r]) : data[r][c].t = "str"
    THEN [ dtype |-> "str",
           rows |-> [ r \in 1 .. Len(data) |->
                        [ c \in 1 .. Len(data[r]) |-> StrCell(StrOfCell(data[r][c])) ] ] ]
    ELSE [ dtype |-> IF \E r \in 1 .. Len(data) : \E c \in 1 .. Len(data[r]) :
                            data[r][c].t = "int"
                     THEN "int" ELSE "float",
           rows |-> data ]

\* list[ from: ] for from >= 0.
SliceFrom(list, from) == SubSeq(list, from + 1, Len(list))

loadstr(data_str, delimiter, dtype, skip_rows) ==
    LET lines == SliceFrom(StrSplit(data_str, <<NL>>), skip_rows)
        data == [ r \in 1 .. Len(lines) |->
                    LET tokens == SplitLine(lines[r], delimiter)
                    IN  [ c \in 1 .. Len(tokens) |-> conversion(tokens[c], dtype) ] ]
    IN  NpArray(data)

-----------------------------------------------------------------------------
\* flagize (FreeFemTools/edpTools.py): the sentinel line text of a section
\* name, "# " followed by the name.
flagize(name) == <<"#", " ">> \o name

\* A framer that returns the last piece of the split.
parse_FreeFem_output_last(str, flag) ==
    LET parts == StrSplit(str, flag \o <<NL>>)
    IN  IF Len(parts) < 2 THEN Raised("IndexError") ELSE Returned(parts[Len(parts)])

\* parse_FreeFem_output: FreeFem_str.split( flag + '\n' )[1]
parse_FreeFem_output(str, flag) ==
    LET parts == StrSplit(str, flag \o <<NL>>)
    IN  IF Len(parts) < 2 THEN Raised("IndexError") ELSE Returned(parts[2])

-----------------------------------------------------------------------------
\* FreeFem_str_to_matrix

\* FreeFem_lines[3] is the header line.
HeaderIndex == 3

\* list[ from : -1 ]: from Python position `from` up to, not including, the
\* last element.
SliceToLast(list, from) == SubSeq(list, from + 1, Len(list) - 1)

\* map( int, line.split() ) unpacked into four names: Some(the four ints), or
\* None when a token is no int or there are not four of them (ValueError).
HeaderOf(line) ==
    LET tokens == SplitWhitespace(line)
    IN  IF Len(tokens) = 4 /\ \A k \in 1 .. 4 : IntOfStr(tokens[k]) # None
        THEN Some([ k \in 1 .. 4 |-> ValueOf(IntOfStr(tokens[k])) ])
        ELSE None

\* `I, J, coef = array.T`: Some(the three sequences), or None when the
\* transposed array does not have exactly three rows (ValueError). A
\* two-dimensional array yields its columns; the one-dimensional array of list
\* objects is its own transpose and yields its elements.
UnpackColumns(array) ==
    IF array.dtype = "object"
    THEN IF Len(array.rows) = 3 THEN Some(array.rows) ELSE None
    ELSE IF Len(array.rows[1]) = 3
         THEN Some([ c \in 1 .. 3 |-> [ r \in 1 .. Len(array.rows) |-> array.rows[r][c] ] ])
         ELSE None

\* int( x ) of an array element: Some(the int) or None (ValueError).
IntOfCell(cell) ==
    IF cell.t = "str" THEN IntOfStr(cell.s)
    ELSE IF cell.t = "float" THEN Some(IntOfFloat(FloatOf(cell)))
    ELSE Some(cell.m)

\* float( x ) of an array element: Some(the float) or None (ValueError).
FloatOfCell(cell) ==
    IF cell.t = "str" THEN FloatOfStr(cell.s)
    ELSE IF cell.t = "float" THEN Some(FloatOf(cell))
    ELSE Some(FloatOfInt(cell.m))

\* The index shift that shifts nothing.
IndexShift_none(n) == n

\* `- 1`: an index on the wire to an index in memory.
IndexShift(n) == n - 1

\* sparse_matrix( ( coef, (I, J) ), ( nb_row, nb_col ) ): the coordinate data
\* as handed over; 'raw' returns it as it is, a scipy constructor refuses
\* arrays of different lengths and indices outside the shape.
Construct(sparse_matrix, coef, I, J, shape) ==
    LET data == [ coef |-> coef, I |-> I, J |-> J, shape |-> shape ]
    IN  IF sparse_matrix = "raw" THEN Returned(data)
        ELSE IF /\ Len(I) = Len(coef)
                /\ Len(J) = Len(coef)
                /\ \A k \in 1 .. Len(I) : I[k] >= 0 /\ I[k] < shape[1]
                /\ \A k \in 1 .. Len(J) : J[k] >= 0 /\ J[k] < shape[2]
        THEN Returned(data)
        ELSE Raised("ValueError")

\* The function from FreeFem_lines on.
MatrixOfLines(FreeFem_lines, sparse_matrix) ==
    IF Len(FreeFem_lines) < HeaderIndex + 1 THEN Raised("IndexError")
    ELSE IF HeaderOf(FreeFem_lines[HeaderIndex + 1]) = None THEN Raised("ValueError")
    ELSE
      LET header == ValueOf(HeaderOf(FreeFem_lines[HeaderIndex + 1]))
          nb_row == header[1]
          nb_col == header[2]
          table == loadstr(StrJoin(<<NL>>, SliceToLast(FreeFem_lines, HeaderIndex + 1)),
                           None, "float", 0)
      IN  IF UnpackColumns(table) = None THEN Raised("ValueError")
          ELSE
            LET columns == ValueOf(UnpackColumns(table))
                I == columns[1]
                J == columns[2]
                coef == columns[3]
            IN  IF \/ \E k \in 1 .. Len(I) : IntOfCell(I[k]) = None
                   \/ \E k \in 1 .. Len(J) : IntOfCell(J[k]) = None
                   \/ \E k \in 1 .. Len(coef) : FloatOfCell(coef[k]) = None
                THEN Raised("ValueError")
                ELSE Construct(
                       sparse_matrix,
                       [ k \in 1 .. Len(coef) |-> ValueOf(FloatOfCell(coef[k])) ],
                       [ k \in 1 .. Len(I) |-> IndexShift(ValueOf(IntOfCell(I[k]))) ],
                       [ k \in 1 .. Len(J) |-> IndexShift(ValueOf(IntOfCell(J[k]))) ],
                       << nb_row, nb_col >>)

FreeFem_str_to_matrix(str, matrix_name, flag, sparse_matrix) ==
    LET the_flag == IF flag # None THEN flag
                    ELSE IF matrix_name # None THEN Some(flagize(ValueOf(matrix_name)))
                    ELSE None
        section == IF the_flag # None THEN parse_FreeFem_output(str, ValueOf(the_flag))
                   ELSE Returned(str)
    IN  IF section.raises # "" THEN section
        ELSE MatrixOfLines(StrSplit(section.value, <<NL>>), sparse_matrix)

-----------------------------------------------------------------------------
\* savemesh

\* str( list ) of a list of ints: "[1, 2, 3]".
StrOfList(list) ==
    <<"[">> \o StrJoin(<<",", " ">>, [ i \in 1 .. Len(list) |-> StrOfInt(list[i]) ]) \o <<"]">>

\* text[1:-1]
StripEnds(text) == SubSeq(text, 2, Len(text) - 1)

\* text.replace( old, new ) for single characters.
Replace(text, old, new) ==
    [ i \in 1 .. Len(text) |-> IF text[i] = old THEN new ELSE text[i] ]

\* str( list )[1:-1].replace(',',' ')
ListText(list) == Replace(StripEnds(StrOfList(list)), ",", " ")

\* Offsets that shift the label as well.
EdgeOffsets_all == << 1, 1, 1 >>

\* np.array([ 1, 1, 0 ]): the node ids of an edge are shifted, its label is not.
EdgeOffsets == << 1, 1, 0 >>

\* TriMesh.get_boundary_edges (TriMesh.py): one [ start node, end node, label ]
\* per entry of boundary_edges, the nodes being those of the triangle at the
\* slot and at the next slot; `order` is the order in which the dict yields
\* its keys.
get_boundary_edges(mesh, order) ==
    [ i \in 1 .. Len(order) |->
        LET triangle == mesh.triangles[order[i][1] + 1]
            slot == order[i][2]
        IN  << triangle[slot + 1], triangle[((slot + 1) % 3) + 1],
               mesh.boundary_edges[order[i]] >> ]

\* The text written to the file.
savemesh(mesh, order) ==
    LET edges == get_boundary_edges(mesh, order)
    IN  ListText(<< Len(mesh.x), Len(mesh.triangles),
                    Cardinality(DOMAIN mesh.boundary_edges) >>) \o <<NL>>
        \o Concat([ n \in 1 .. Len(mesh.x) |->
              StrOfFloat(mesh.x[n]) \o <<" ">> \o StrOfFloat(mesh.y[n]) \o <<" ">>
                \o StrOfInt(mesh.node_labels[n]) \o <<NL>> ])
        \o Concat([ t \in 1 .. Len(mesh.triangles) |->
              ListText([ k \in 1 .. 3 |-> mesh.triangles[t][k] + 1 ]) \o <<" ">>
                \o StrOfInt(mesh.triangle_labels[t]) \o <<NL>> ])
        \o Concat([ e \in 1 .. Len(edges) |->
              ListText([ k \in 1 .. 3 |-> edges[e][k] + EdgeOffsets[k] ]) \o <<NL>> ])

-----------------------------------------------------------------------------
\* Bounds of the mesh model.

\* Node ids are 0..MaxNode.
MaxNode == 2
\* At most MaxTri triangles in the connectivity array.
MaxTri == 2
\* At most MaxEdges raw boundary edges in FreeFem_mesh['boundaries'].
MaxEdges == 2

Nodes == 0 .. MaxNode
\* Boundary labels that occur in the inputs.
Labels == {-3, 7}

\* Sequences over S of length at most n.
RECURSIVE SeqUpTo(_, _)
SeqUpTo(S, n) ==
    IF n = 0 THEN { <<>> }
    ELSE LET shorter == SeqUpTo(S, n - 1)
         IN  shorter \cup { Append(s, x) : s \in { t \in shorter : Len(t) = n - 1 }, x \in S }

Min(S) == CHOOSE x \in S : \A y \in S : x <= y

\* A row of the triangle array after the label column is cut off
\* (FreeFem_mesh['triangles'][:,:-1]): three node ids, not necessarily distinct.
TriangleRows == Nodes \X Nodes \X Nodes
\* A row of FreeFem_mesh['boundaries']: start node, end node, label.
EdgeRows == Nodes \X Nodes \X Labels

-----------------------------------------------------------------------------
\* find_triangle_index

\* The orders without the wrap-around one.
NodesOrders_nowrap == << <<0, 1>>, <<1, 2>> >>

\* nodes_order takes the values [0,1], [1,2], [-1,0] in this order.
NodesOrders == << <<0, 1>>, <<1, 2>>, <<-1, 0>> >>

\* row[c] for a Python column index c of a three-column row (-1 is the last column).
Column(row, c) == row[(c % 3) + 1]

\* triangles[:, nodes_order].tolist()
ColumnPairs(tris, nodes_order) ==
    [ t \in 1 .. Len(tris) |->
        << Column(tris[t], nodes_order[1]), Column(tris[t], nodes_order[2]) >> ]

\* list.index( value ): Some(the Python position of the first equal element),
\* or None when there is none and index() raises ValueError.
ListIndex(list, value) ==
    LET hits == { p \in 1 .. Len(list) : list[p] = value }
    IN  IF hits = {} THEN None ELSE Some(Min(hits) - 1)

\* The loop over nodes_order from its o-th value on: the first order whose
\* index() call does not raise decides (break); an exception is swallowed.
RECURSIVE find_from(_, _, _, _)
find_from(tris, start_node, end_node, o) ==
    IF o > Len(NodesOrders) THEN None
    ELSE LET found == ListIndex(ColumnPairs(tris, NodesOrders[o]), <<start_node, end_node>>)
         IN  IF found # None THEN found
             ELSE find_from(tris, start_node, end_node, o + 1)

find_triangle_index(tris, start_node, end_node) ==
    find_from(tris, start_node, end_node, 1)

-----------------------------------------------------------------------------
\* FreeFem_edge_to_boundary_edge

Reversing(FreeFem_edge) == <<"Reversing edge", FreeFem_edge>>
CouldNotFind(FreeFem_edge) == <<"Could not find boundary edge", FreeFem_edge>>

\* A swap that swaps nothing.
SwapNodes_kept(start_node, end_node) == <<start_node, end_node>>

\* start_node, end_node = end_node, start_node
SwapNodes(start_node, end_node) == <<end_node, start_node>>

\* The value returned (a dict of at most one entry) and the lines printed.
FreeFem_edge_to_boundary_edge(FreeFem_edge, tris, flip_reversed_edges) ==
    LET start_node == FreeFem_edge[1]
        end_node == FreeFem_edge[2]
        label_integer == FreeFem_edge[3]
        first_try == find_triangle_index(tris, start_node, end_node)
        flipped == first_try = None /\ flip_reversed_edges
        start2 == IF flipped THEN SwapNodes(start_node, end_node)[1] ELSE start_node
        end2 == IF flipped THEN SwapNodes(start_node, end_node)[2] ELSE end_node
        triangle_index ==
            IF flipped THEN find_triangle_index(tris, start2, end2) ELSE first_try
        out1 == IF flipped THEN << Reversing(FreeFem_edge) >> ELSE <<>>
    IN  IF triangle_index = None
        THEN [ value |-> <<>>, stdout |-> Append(out1, CouldNotFind(FreeFem_edge)) ]
        ELSE LET node_index_in_triangle ==
                     ValueOf(ListIndex(tris[ValueOf(triangle_index) + 1], start2))
             IN  [ value |-> ( <<ValueOf(triangle_index), node_index_in_triangle>>
                                  :> label_integer ),
                   stdout |-> out1 ]

-----------------------------------------------------------------------------
\* FreeFem_str_to_mesh, from the decoded FreeFem_mesh on: the loop that
\* resolves every raw boundary edge and merges the results.

\* An update that keeps the entries already there.
DictUpdate_keep(d, other) ==
    [ key \in (DOMAIN d) \cup (DOMAIN other) |->
        IF key \in DOMAIN d THEN d[key] ELSE other[key] ]

\* dict.update
DictUpdate(d, other) ==
    [ key \in (DOMAIN d) \cup (DOMAIN other) |->
        IF key \in DOMAIN other THEN other[key] ELSE d[key] ]

\* The decoded sections. An empty 'triangles' section decodes to an array
\* without columns, in which every search fails: it is the empty sequence
\* here. An empty 'boundaries' section decodes to one row without elements.
MeshInit ==
    /\ pc = "loop"
    /\ triangles \in SeqUpTo(TriangleRows, MaxTri)
    /\ boundaries \in (SeqUpTo(EdgeRows, MaxEdges) \ { <<>> }) \cup { << <<>> >> }
    /\ boundary_edges = <<>>
    /\ edge_no = 0
    /\ last = Idle
    /\ FreeFem_str = Idle
    /\ args = Idle
    /\ result = Idle

\* One iteration of `for edge in FreeFem_mesh['boundaries']`.
LoopStep ==
    /\ pc = "loop"
    /\ edge_no < Len(boundaries)
    /\ Len(boundaries[edge_no + 1]) = 3
    /\ LET edge == boundaries[edge_no + 1]
           call == FreeFem_edge_to_boundary_edge(edge, triangles, TRUE)
       IN  /\ boundary_edges' = DictUpdate(boundary_edges, call.value)
           /\ last' = [ edge |-> edge, value |-> call.value, stdout |-> call.stdout,
                        before |-> boundary_edges ]
    /\ edge_no' = edge_no + 1
    /\ UNCHANGED <<pc, triangles, boundaries, FreeFem_str, args, result>>

\* The loop is exhausted: the mesh is built from boundary_edges and returned.
LoopExit ==
    /\ pc = "loop"
    /\ edge_no = Len(boundaries)
    /\ pc' = "returned"
    /\ UNCHANGED <<triangles, boundaries, boundary_edges, edge_no, last,
                   FreeFem_str, args, result>>

\* The row does not unpack into start_node, end_node, label_integer.
LoopRaise ==
    /\ pc = "loop"
    /\ edge_no < Len(boundaries)
    /\ Len(boundaries[edge_no + 1]) # 3
    /\ pc' = "raised"
    /\ result' = Raised("ValueError")
    /\ UNCHANGED <<triangles, boundaries, boundary_edges, edge_no, last, FreeFem_str, args>>

MeshNext == LoopStep \/ LoopRaise \/ LoopExit

Spec == MeshInit /\ [][MeshNext]_vars

-----------------------------------------------------------------------------
\* The framer on its own: parse_FreeFem_output applied to output blobs.

\* A blob is made of at most MaxPieces of the pieces below.
MaxPieces == 6

\* The section names of the blobs.
SectionNames == { <<"A">>, <<"B">> }

\* The sentinel texts of two sections, a character of other text, a newline.
FramerPieces == { flagize(name) : name \in SectionNames } \cup { <<"x">>, <<NL>> }

FramerInit ==
    /\ pc = "call"
    /\ \E pieces \in SeqUpTo(FramerPieces, MaxPieces) : FreeFem_str = Concat(pieces)
    /\ args \in { [ flag |-> flagize(name) ] : name \in SectionNames }
    /\ result = Idle
    /\ triangles = Idle
    /\ boundaries = Idle
    /\ boundary_edges = Idle
    /\ edge_no = 0
    /\ last = Idle

CallParse ==
    /\ pc = "call"
    /\ result' = parse_FreeFem_output(FreeFem_str, args.flag)
    /\ pc' = "done"
    /\ UNCHANGED <<triangles, boundaries, boundary_edges, edge_no, last, FreeFem_str, args>>

FramerNext == CallParse

SpecFramer == FramerInit /\ [][FramerNext]_vars

-----------------------------------------------------------------------------
\* FreeFem_str_to_mesh, up to the decoded FreeFem_mesh.

\* The keys of the mesh sections; a key is one symbol of the text here.
MeshIntKeys == << <<"triangles">>, <<"boundaries">> >>
MeshFloatKeys == << <<"nodes">> >>

\* FreeFem_str.split( '\n' + flagize(key) + '\n' )[1] of the padded text.
MeshSection(padded, key) ==
    LET parts == StrSplit(padded, <<NL>> \o flagize(key) \o <<NL>>)
    IN  IF Len(parts) < 2 THEN Raised("IndexError") ELSE Returned(parts[2])

\* The two loops over the keys: the first key whose section is missing raises.
DecodeMesh(str) ==
    LET padded == <<NL>> \o str \o <<NL>>
        keys == MeshIntKeys \o MeshFloatKeys
        missing == { k \in 1 .. Len(keys) : MeshSection(padded, keys[k]).raises # "" }
    IN  IF missing # {} THEN Raised("IndexError")
        ELSE Returned([ k \in 1 .. Len(keys) |->
                 loadstr(MeshSection(padded, keys[k]).value, None,
                         IF k <= Len(MeshIntKeys) THEN "int" ELSE "float", 0) ])

\* The pieces of the blobs: the sentinel texts of the three sections, a
\* numeral and a newline.
SectionPieces ==
    { flagize(<<"triangles">>), flagize(<<"boundaries">>), flagize(<<"nodes">>),
      <<"1">>, <<NL>> }

SectionsInit ==
    /\ pc = "call"
    /\ \E pieces \in SeqUpTo(SectionPieces, MaxPieces) : FreeFem_str = Concat(pieces)
    /\ args = Idle
    /\ result = Idle
    /\ triangles = Idle
    /\ boundaries = Idle
    /\ boundary_edges = Idle
    /\ edge_no = 0
    /\ last = Idle

CallDecodeMesh ==
    /\ pc = "call"
    /\ result' = DecodeMesh(FreeFem_str)
    /\ pc' = "done"
    /\ UNCHANGED <<triangles, boundaries, boundary_edges, edge_no, last, FreeFem_str, args>>

SectionsNext == CallDecodeMesh

SpecSections == SectionsInit /\ [][SectionsNext]_vars

-----------------------------------------------------------------------------
\* The text-table decoder on its own: loadstr applied to texts.

\* A text has at most MaxChars characters.
MaxChars == 5

\* The characters of the texts: digits, a point, a sign, a letter, a blank
\* and the newline.
TableChars == { "1", "5", ".", "-", "x", " ", NL }

LoadstrInit ==
    /\ pc = "call"
    /\ FreeFem_str \in SeqUpTo(TableChars, MaxChars)
    /\ args \in { [ delimiter |-> None, dtype |-> dtype, skip_rows |-> 0 ] :
                    dtype \in { "float", "int" } }
    /\ result = Idle
    /\ triangles = Idle
    /\ boundaries = Idle
    /\ boundary_edges = Idle
    /\ edge_no = 0
    /\ last = Idle

CallLoadstr ==
    /\ pc = "call"
    /\ result' = Returned(loadstr(FreeFem_str, args.delimiter, args.dtype, args.skip_rows))
    /\ pc' = "done"
    /\ UNCHANGED <<triangles, boundaries, boundary_edges, edge_no, last, FreeFem_str, args>>

LoadstrNext == CallLoadstr

SpecLoadstr == LoadstrInit /\ [][LoadstrNext]_vars

-----------------------------------------------------------------------------
\* The matrix decoder: FreeFem_str_to_matrix applied to solver output.

\* At most MaxPreamble lines between the sentinel line and the header line.
MaxPreamble == 4
\* At most MaxData data lines.
MaxData == 2

\* The name of the matrix section.
MatrixName == <<"A">>

\* The header lines of the outputs: row count, column count, symmetry flag,
\* coefficient count; and one whose third token is no integer.
Headers ==
    { [ r |-> r, c |-> 2, s |-> 0, n |-> n, text |->
          StrJoin(<<" ">>, << StrOfInt(r), StrOfInt(2), StrOfInt(0), StrOfInt(n) >>) ] :
        r \in 1 .. 2, n \in 0 .. MaxData }
    \cup { [ r |-> 2, c |-> 2, s |-> 0, n |-> 1, text |-> <<"2", " ", "2", " ", "x", " ", "1">> ] }

\* The data lines of the outputs: row, column and the text of the value.
DataLines ==
    { [ row |-> 1, col |-> 1, v |-> <<"4", ".", "0">> ],
      [ row |-> 2, col |-> 1, v |-> <<"-", "1", ".", "5">> ],
      [ row |-> 1, col |-> 2, v |-> <<"x">> ] }

DataText(line) == StrJoin(<<" ">>, << StrOfInt(line.row), StrOfInt(line.col), line.v >>)

\* n copies of a string.
RECURSIVE Repeat(_, _)
Repeat(s, n) == IF n = 0 THEN <<>> ELSE s \o Repeat(s, n - 1)

\* What the outputs are made of.
\*   prefix    text before the section's sentinel text, on the same line
\*   opening   whether the sentinel line precedes the section
\*   preamble  the number of comment lines before the header line
\*   header    the header line
\*   data      the data lines
\*   blank     whether an empty line follows the data lines
\*   closing   whether the sentinel line follows the section
Outputs ==
    [ prefix : { <<>>, <<"x">> },
      opening : BOOLEAN,
      preamble : 0 .. MaxPreamble,
      header : Headers,
      data : SeqUpTo(DataLines, MaxData),
      blank : BOOLEAN,
      closing : BOOLEAN ]

\* The text of an output: every line is ended by a newline.
OutputText(out) ==
    out.prefix
      \o (IF out.opening THEN flagize(MatrixName) \o <<NL>> ELSE <<>>)
      \o Repeat(<<"c", NL>>, out.preamble)
      \o out.header.text \o <<NL>>
      \o Concat([ k \in 1 .. Len(out.data) |-> DataText(out.data[k]) \o <<NL>> ])
      \o (IF out.blank THEN <<NL>> ELSE <<>>)
      \o (IF out.closing THEN flagize(MatrixName) \o <<NL>> ELSE <<>>)

\* The ways the section is asked for: by name, by flag, or not at all (the
\* whole text is the section).
MatrixArgs ==
    { [ matrix_name |-> Some(MatrixName), flag |-> None, sparse_matrix |-> "raw" ],
      [ matrix_name |-> None, flag |-> Some(flagize(MatrixName)), sparse_matrix |-> "csr_matrix" ],
      [ matrix_name |-> None, flag |-> None, sparse_matrix |-> "raw" ] }

MatrixInit ==
    /\ pc = "call"
    /\ last \in Outputs
    /\ FreeFem_str = OutputText(last)
    /\ args \in MatrixArgs
    /\ result = Idle
    /\ triangles = Idle
    /\ boundaries = Idle
    /\ boundary_edges = Idle
    /\ edge_no = 0

CallMatrix ==
    /\ pc = "call"
    /\ result' = FreeFem_str_to_matrix(FreeFem_str, args.matrix_name, args.flag,
                                       args.sparse_matrix)
    /\ pc' = "done"
    /\ UNCHANGED <<triangles, boundaries, boundary_edges, edge_no, last, FreeFem_str, args>>

MatrixNext == CallMatrix

SpecMatrix == MatrixInit /\ [][MatrixNext]_vars

-----------------------------------------------------------------------------
\* The serializer: savemesh applied to meshes.

\* The meshes have MaxNode + 1 nodes, at most MaxTri triangles and at most
\* MaxEdges boundary edges.

\* Node lines: x, y and the node label.
NodeRows ==
    { [ x |-> Float(0, 0), y |-> Float(5, 1), label |-> 0 ],
      [ x |-> Float(-125, 2), y |-> Float(20, 0), label |-> 3 ] }

\* Triangles of the saved meshes and their region labels.
SavedTriangles == { <<0, 1, 2>>, <<2, 1, 0>>, <<1, 2, 0>> }
RegionLabels == { 0, 11 }

\* The dicts over the keys K with at most n entries.
DictsUpTo(K, n) ==
    UNION { [ D -> Labels ] : D \in { D \in SUBSET K : Cardinality(D) <= n } }

\* The orders in which the keys of a dict may be yielded.
Orderings(K) ==
    { order \in [ 1 .. Cardinality(K) -> K ] :
        \A i, j \in 1 .. Cardinality(K) : i # j => order[i] # order[j] }

Meshes ==
    UNION { UNION {
        [ x : { [ n \in 1 .. Len(nodes) |-> nodes[n].x ] },
          y : { [ n \in 1 .. Len(nodes) |-> nodes[n].y ] },
          node_labels : { [ n \in 1 .. Len(nodes) |-> nodes[n].label ] },
          triangles : { tris },
          triangle_labels : [ 1 .. Len(tris) -> RegionLabels ],
          boundary_edges : DictsUpTo((0 .. Len(tris) - 1) \X (0 .. 2), MaxEdges) ] :
          tris \in SeqUpTo(SavedTriangles, MaxTri) } :
        nodes \in [ 1 .. MaxNode + 1 -> NodeRows ] }

SaveInit ==
    /\ pc = "call"
    /\ args \in { [ mesh |-> mesh ] : mesh \in Meshes }
    /\ FreeFem_str = Idle
    /\ result = Idle
    /\ triangles = Idle
    /\ boundaries = Idle
    /\ boundary_edges = Idle
    /\ edge_no = 0
    /\ last = Idle

CallSavemesh ==
    /\ pc = "call"
    /\ \E order \in Orderings(DOMAIN args.mesh.boundary_edges) :
          result' = Returned(savemesh(args.mesh, order))
    /\ pc' = "done"
    /\ UNCHANGED <<triangles, boundaries, boundary_edges, edge_no, last, FreeFem_str, args>>

SaveNext == CallSavemesh

SpecSave == SaveInit /\ [][SaveNext]_vars

-----------------------------------------------------------------------------
\* Properties of the resolver and of the reconstruction loop (under Spec).
\* They speak of the call made by the latest LoopStep, recorded in `last`.

\* Triangle t (Python index) has the directed edge (a, b) at slot k: a at
\* position k and b at position (k + 1) mod 3.
HasEdgeAt(t, k, a, b) ==
    /\ triangles[t + 1][k + 1] = a
    /\ triangles[t + 1][((k + 1) % 3) + 1] = b

\* All (triangle, slot) positions of the directed edge (a, b).
Positions(a, b) ==
    { key \in (0 .. Len(triangles) - 1) \X (0 .. 2) : HasEdgeAt(key[1], key[2], a, b) }

\* The position with the lowest slot and, within that slot, the lowest triangle.
BestPosition(a, b) ==
    CHOOSE key \in Positions(a, b) :
        \A other \in Positions(a, b) :
            \/ key[2] < other[2]
            \/ key[2] = other[2] /\ key[1] <= other[1]

\* Every row of the triangle array names three different nodes.
ProperTriangles ==
    \A t \in 1 .. Len(triangles) :
        Cardinality({ triangles[t][1], triangles[t][2], triangles[t][3] }) = 3

\* A resolver call has been made (the loop has run at least once).
Called == edge_no > 0

\* C1: when some triangle has the edge's start node a at position k and its end
\* node b at position (k+1) mod 3, the resolver returns exactly one entry
\* {(t, k): label} for such a position (t, k), and prints nothing.
C1_ForwardCase ==
    Called /\ Positions(last.edge[1], last.edge[2]) # {} =>
        /\ \E key \in Positions(last.edge[1], last.edge[2]) :
               last.value = ( key :> last.edge[3] )
        /\ last.stdout = <<>>

\* C1 restricted to arrays whose triangles have three different nodes.
C1_ForwardCaseProper ==
    ProperTriangles => C1_ForwardCase

\* C2 as stated, on arrays of triangles with three different nodes: whenever
\* some triangle has (a, b) at a slot, resolving (b, a, label) returns what
\* resolving (a, b, label) returns, a single entry at a position of (a, b),
\* and prints the reversal diagnostic.
C2_ReversedAlways ==
    Called /\ ProperTriangles /\ Positions(last.edge[2], last.edge[1]) # {} =>
        /\ last.value =
             FreeFem_edge_to_boundary_edge(
                 <<last.edge[2], last.edge[1], last.edge[3]>>, triangles, TRUE).value
        /\ \E key \in Positions(last.edge[2], last.edge[1]) :
               last.value = ( key :> last.edge[3] )
        /\ last.stdout = << Reversing(last.edge) >>

\* C2, amended: for every triangle array, when some triangle has (a, b) at a
\* slot and the pair as given, (b, a), is a directed edge of no triangle,
\* resolving (b, a, label) returns what resolving (a, b, label) returns, a
\* single entry at a position of (a, b) with the same label, and prints
\* exactly the reversal diagnostic.
C2_ReversedCase ==
    Called /\ Positions(last.edge[2], last.edge[1]) # {}
           /\ Positions(last.edge[1], last.edge[2]) = {} =>
        /\ last.value =
             FreeFem_edge_to_boundary_edge(
                 <<last.edge[2], last.edge[1], last.edge[3]>>, triangles, TRUE).value
        /\ \E key \in Positions(last.edge[2], last.edge[1]) :
               last.value = ( key :> last.edge[3] )
        /\ last.stdout = << Reversing(last.edge) >>

\* A reversed edge of the second of two proper triangles has been resolved.
C2_Witness ==
    /\ Called
    /\ ProperTriangles
    /\ Len(triangles) = 2
    /\ Positions(last.edge[2], last.edge[1]) # {}
    /\ Positions(last.edge[1], last.edge[2]) = {}
    /\ \E key \in DOMAIN last.value : key[1] = 1

\* An edge row that resolves: its node pair is a directed edge of some
\* triangle in one of the two orders.
Resolvable(edge) ==
    Positions(edge[1], edge[2]) # {} \/ Positions(edge[2], edge[1]) # {}

\* The Python positions (from 1) of the edges processed so far that resolve.
ResolvedSoFar == { i \in 1 .. edge_no : Resolvable(boundaries[i]) }

\* The keys of the mapping the resolver returns for an edge row.
KeysOf(edge) == DOMAIN FreeFem_edge_to_boundary_edge(edge, triangles, TRUE).value

\* C3: an edge whose node pair is a directed edge of no triangle in either
\* order yields the empty mapping and the 'Could not find boundary edge'
\* diagnostic and leaves boundary_edges as it was; the loop never runs past
\* the edge list, and the returned boundary_edges has exactly the keys of the
\* resolvable edges, each with the label of a resolvable edge of that key.
C3_UnresolvableDropped ==
    /\ Called /\ ~ Resolvable(last.edge) =>
          /\ last.value = <<>>
          /\ last.stdout[Len(last.stdout)] = CouldNotFind(last.edge)
          /\ boundary_edges = last.before
    /\ pc = "loop" => edge_no <= Len(boundaries)
    /\ pc = "returned" =>
          /\ edge_no = Len(boundaries)
          /\ \A i \in ResolvedSoFar :
                /\ Cardinality(KeysOf(boundaries[i])) = 1
                /\ KeysOf(boundaries[i]) \subseteq DOMAIN boundary_edges
          /\ \A key \in DOMAIN boundary_edges :
                \E i \in ResolvedSoFar :
                    /\ key \in KeysOf(boundaries[i])
                    /\ boundary_edges[key] = boundaries[i][3]

\* A mesh was returned whose edge list held an unresolvable edge before a
\* resolvable one.
C3_Witness ==
    /\ pc = "returned"
    /\ ProperTriangles
    /\ \E i, j \in 1 .. Len(boundaries) :
          /\ i < j
          /\ ~ Resolvable(boundaries[i])
          /\ Resolvable(boundaries[j])
    /\ boundary_edges # <<>>

\* C9: when (start, end) matches somewhere, the result is the match with the
\* lowest slot and, within that slot, the lowest triangle index, and the
\* swapped pair is not searched (no reversal is printed).
C9_Priority ==
    Called /\ Positions(last.edge[1], last.edge[2]) # {} =>
        /\ last.value = ( BestPosition(last.edge[1], last.edge[2]) :> last.edge[3] )
        /\ last.stdout = <<>>

\* C9 restricted to arrays whose triangles have three different nodes.
C9_PriorityProper ==
    ProperTriangles => C9_Priority

\* The processed edges that resolved to the key.
ResolvedTo(key) == { i \in 1 .. edge_no : key \in KeysOf(boundaries[i]) }

Max(S) == CHOOSE x \in S : \A y \in S : y <= x

\* C10: after each step boundary_edges holds exactly the keys produced by the
\* edges resolved so far, each with the label of the latest processed edge of
\* that key; a step leaves the entries of other keys as they were, an
\* unresolved edge changes nothing, and there are never more entries than
\* processed edges.
C10_LastWriteWins ==
    /\ edge_no <= Len(boundaries)
    /\ DOMAIN boundary_edges = UNION { KeysOf(boundaries[i]) : i \in 1 .. edge_no }
    /\ \A key \in DOMAIN boundary_edges :
          /\ ResolvedTo(key) # {}
          /\ boundary_edges[key] = boundaries[Max(ResolvedTo(key))][3]
    /\ Cardinality(DOMAIN boundary_edges) <= edge_no
    /\ Called =>
          /\ \A key \in DOMAIN last.before :
                key \notin DOMAIN last.value =>
                    key \in DOMAIN boundary_edges /\ boundary_edges[key] = last.before[key]
          /\ last.value = <<>> => boundary_edges = last.before

\* Two edges with different labels resolved to the same key of a proper
\* triangle.
C10_Witness ==
    /\ edge_no = 2
    /\ ProperTriangles
    /\ Cardinality(DOMAIN boundary_edges) = 1
    /\ ResolvedSoFar = {1, 2}
    /\ boundaries[1][3] # boundaries[2][3]

-----------------------------------------------------------------------------
\* Properties of the framer (under SpecFramer).

\* The positions where a line of s starts.
LineStarts(s) == { 1 } \cup { i + 1 : i \in { j \in 1 .. Len(s) : s[j] = NL } }

\* A line of s equal to the sentinel text starts at i and is ended by a newline.
SentinelLineAt(s, flag, i) ==
    i \in LineStarts(s) /\ OccursAt(s, flag \o <<NL>>, i)

SentinelLines(s, flag) == { i \in 1 .. Len(s) : SentinelLineAt(s, flag, i) }

\* The start of whatever sentinel line, of any section, comes first at or
\* after position from; Len(s) + 1 when there is none.
NextSentinel(s, from) ==
    LET later == { i \in from .. Len(s) :
                     \E name \in SectionNames : SentinelLineAt(s, flagize(name), i) }
    IN  IF later = {} THEN Len(s) + 1 ELSE Min(later)

\* C5 as stated: when the blob has the sentinel line of the requested section,
\* the result is the text after its first occurrence, up to the next sentinel
\* line of any section or the end of the blob.
C5_SpanToNextSentinel ==
    pc = "done" /\ SentinelLines(FreeFem_str, args.flag) # {} =>
        LET from == Min(SentinelLines(FreeFem_str, args.flag)) + Len(args.flag) + 1
        IN  /\ result.raises = ""
            /\ result.value = SubSeq(FreeFem_str, from, NextSentinel(FreeFem_str, from) - 1)

\* C5, amended: when the sentinel text followed by a newline occurs in the
\* blob, the result is the text after its first occurrence, up to the next
\* occurrence of the same sentinel text and newline, or the end of the blob.
C5_SpanToSameFlag ==
    LET sep == args.flag \o <<NL>>
    IN  pc = "done" /\ Occurrences(FreeFem_str, sep, 1) # {} =>
            LET from == Min(Occurrences(FreeFem_str, sep, 1)) + Len(sep)
                again == Occurrences(FreeFem_str, sep, from)
                to == IF again = {} THEN Len(FreeFem_str) ELSE Min(again) - 1
            IN  /\ result.raises = ""
                /\ result.value = SubSeq(FreeFem_str, from, to)

\* The requested section was closed by its own sentinel, and the text returned
\* holds the sentinel line of the other section.
C5_Witness ==
    /\ pc = "done"
    /\ result.raises = ""
    /\ Cardinality(Occurrences(FreeFem_str, args.flag \o <<NL>>, 1)) = 2
    /\ \E name \in SectionNames :
          /\ flagize(name) # args.flag
          /\ SentinelLines(result.value, flagize(name)) # {}

-----------------------------------------------------------------------------
\* Properties of the text-table decoder (under SpecLoadstr).

\* The lines of a text and the tokens of a line, by position.
LinesOf(s) ==
    LET starts == LineStarts(s)
    IN  { [ from |-> i,
            to |-> Min({ j \in i .. Len(s) : s[j] = NL } \cup { Len(s) + 1 }) - 1 ] :
          i \in starts }

\* The tokens of s[from..to]: the maximal runs without whitespace.
TokensOf(s, from, to) ==
    { [ from |-> i, to |-> j ] : i \in from .. to, j \in from .. to } \cap
    { run \in [ from : from .. to, to : from .. to ] :
        /\ run.from <= run.to
        /\ \A k \in run.from .. run.to : s[k] \notin Whitespace
        /\ run.from = from \/ s[run.from - 1] \in Whitespace
        /\ run.to = to \/ s[run.to + 1] \in Whitespace }

\* The n-th smallest (from 1) of a set of records ordered by their field from.
Nth(S, n) == CHOOSE x \in S : Cardinality({ y \in S : y.from <= x.from }) = n

\* C7: loadstr does not raise; its result has one row per line and one cell per
\* token, in order, and each cell is the converted value when the token
\* converts to the target type and the token's own text when it does not.
C7_LenientCells ==
    pc = "done" =>
        /\ result.raises = ""
        /\ Len(result.value.rows) = Cardinality(LinesOf(FreeFem_str))
        /\ \A r \in 1 .. Len(result.value.rows) :
              LET line == Nth(LinesOf(FreeFem_str), r)
                  tokens == TokensOf(FreeFem_str, line.from, line.to)
                  row == result.value.rows[r]
              IN  /\ Len(row) = Cardinality(tokens)
                  /\ \A c \in 1 .. Len(row) :
                        LET run == Nth(tokens, c)
                            token == SubSeq(FreeFem_str, run.from, run.to)
                        IN  row[c] =
                              IF args.dtype = "float" /\ FloatOfStr(token) # None
                              THEN FloatCell(ValueOf(FloatOfStr(token)))
                              ELSE IF args.dtype = "int" /\ IntOfStr(token) # None
                              THEN IntCell(ValueOf(IntOfStr(token)))
                              ELSE StrCell(token)

\* C7 for the tables in which every token converts or none does.
C7_LenientCellsUnmixed ==
    pc = "done" /\ result.value.dtype # "str" => C7_LenientCells

-----------------------------------------------------------------------------
\* Properties of the matrix decoder (under SpecMatrix).

\* The section is asked for by name or by flag.
Requested == args.matrix_name # None \/ args.flag # None

\* The output holds one section in the layout the decoder reads: the section
\* is the text after the sentinel line that was asked for (or the whole text
\* when none was), it has HeaderIndex lines before the header line, and it
\* ends with the newline of the last data line.
SectionAsRead ==
    /\ Requested => last.opening
    /\ ~ Requested => ~ last.opening /\ ~ last.closing /\ last.prefix = <<>>
    /\ last.preamble = HeaderIndex
    /\ ~ last.blank

\* The section is well formed: the header is four integers (r, c, s, n), and
\* exactly n data lines 'row col value' follow, with 1 <= row <= r,
\* 1 <= col <= c and a value that is a number.
WellFormed ==
    /\ HeaderOf(last.header.text) # None
    /\ Len(last.data) = last.header.n
    /\ \A k \in 1 .. Len(last.data) :
          /\ last.data[k].row \in 1 .. last.header.r
          /\ last.data[k].col \in 1 .. last.header.c
          /\ FloatOfStr(last.data[k].v) # None

\* The decoded data has shape (r, c) and the n coefficients of the wire in
\* order, indices lowered by one, inside the shape.
DecodedAsOnWire ==
    /\ result.raises = ""
    /\ result.value.shape = << last.header.r, last.header.c >>
    /\ Len(result.value.coef) = last.header.n
    /\ Len(result.value.I) = last.header.n
    /\ Len(result.value.J) = last.header.n
    /\ \A k \in 1 .. last.header.n :
          /\ result.value.I[k] = last.data[k].row - 1
          /\ result.value.J[k] = last.data[k].col - 1
          /\ result.value.coef[k] = ValueOf(FloatOfStr(last.data[k].v))
          /\ result.value.I[k] \in 0 .. last.header.r - 1
          /\ result.value.J[k] \in 0 .. last.header.c - 1

\* C4: for every well-formed section, header (r, c, s, n) and exactly n data
\* lines, the decoded coordinate data has shape (r, c) and exactly the n
\* coefficients of the wire in order, indices lowered by one.
C4_WellFormedDecodes ==
    pc = "done" /\ SectionAsRead /\ WellFormed => DecodedAsOnWire

\* C4 for the sections with at least one coefficient.
C4_NonEmptyDecodes ==
    pc = "done" /\ SectionAsRead /\ WellFormed /\ last.header.n >= 1 => DecodedAsOnWire

\* No line of the text is equal to the sentinel text.
NoSentinelLine(s, flag) ==
    \A line \in LinesOf(s) : SubSeq(s, line.from, line.to) # flag

\* C8: when no line of the blob is equal to the sentinel of the section asked
\* for, FreeFem_str_to_matrix raises and returns no matrix.
C8_MissingSectionFatal ==
    pc = "done" /\ Requested
                /\ NoSentinelLine(FreeFem_str, flagize(MatrixName)) =>
        result.raises # ""

\* C8 with the sentinel text, followed by a newline, nowhere in the blob.
C8_MissingTextFatal ==
    pc = "done" /\ Requested
                /\ Occurrences(FreeFem_str, flagize(MatrixName) \o <<NL>>, 1) = {} =>
        result.raises = "IndexError"

-----------------------------------------------------------------------------
\* Properties of the serializer (under SpecSave).

\* A reader of the native mesh file layout: the header 'nv nt ne', nv lines
\* 'x y label', nt lines 'n0 n1 n2 label' and ne lines 'n0 n1 label', node ids
\* from 1 on the file.
ReadInts(line) ==
    LET tokens == SplitWhitespace(line)
    IN  [ k \in 1 .. Len(tokens) |-> ValueOf(IntOfStr(tokens[k])) ]

ReadNode(line) ==
    LET tokens == SplitWhitespace(line)
    IN  [ x |-> ValueOf(FloatOfStr(tokens[1])),
          y |-> ValueOf(FloatOfStr(tokens[2])),
          label |-> ValueOf(IntOfStr(tokens[3])) ]

ReadTriangle(line) ==
    LET ints == ReadInts(line)
    IN  [ nodes |-> << ints[1] - 1, ints[2] - 1, ints[3] - 1 >>, label |-> ints[4] ]

ReadEdge(line) ==
    LET ints == ReadInts(line)
    IN  << ints[1] - 1, ints[2] - 1, ints[3] >>

ReadMesh(text) ==
    LET lines == StrSplit(text, <<NL>>)
        header == ReadInts(lines[1])
    IN  [ header |-> header,
          lines |-> Len(lines),
          last_line |-> lines[Len(lines)],
          nodes |-> [ n \in 1 .. header[1] |-> ReadNode(lines[1 + n]) ],
          triangles |-> [ t \in 1 .. header[2] |-> ReadTriangle(lines[1 + header[1] + t]) ],
          edges |-> [ e \in 1 .. header[3] |->
                        ReadEdge(lines[1 + header[1] + header[2] + e]) ] ]

\* The boundary edges of a mesh as (start node, end node, label), one per key.
EdgeOfKey(mesh, key) ==
    << mesh.triangles[key[1] + 1][key[2] + 1],
       mesh.triangles[key[1] + 1][((key[2] + 1) % 3) + 1],
       mesh.boundary_edges[key] >>

-----------------------------------------------------------------------------
\* The other half of C8 (under SpecSections).

\* C8 for FreeFem_str_to_mesh: it raises exactly when, for one of
\* 'triangles', 'boundaries', 'nodes', no line of the blob is equal to the
\* section's sentinel.
C8_MeshMissingFatal ==
    pc = "done" =>
        ( result.raises # "" <=>
            \E key \in { <<"triangles">>, <<"boundaries">>, <<"nodes">> } :
                \A line \in LinesOf(FreeFem_str) :
                    SubSeq(FreeFem_str, line.from, line.to) # flagize(key) )

====
